---- MODULE Spec2Model ----
(***************************************************************************)
(* Model of class TallySheet (Assignment5.py): a title and a mapping from  *)
(* category name to count, with one action per public method.  Each method *)
(* is a pure operator from the mapping (and arguments) to the new mapping  *)
(* and the outcome ("ok" or the exception raised); the action applies it   *)
(* and records the call, its outcome and the state before it.              *)
(***************************************************************************)
EXTENDS Integers, FiniteSets, Sequences, TLC

\* ---- bounds of the model ----
MaxCount == 2        \* calls that would push a count above this are not made
MaxAmount == 2       \* integer amounts passed by callers are -1 .. MaxAmount

\* ---- input domains ----
Titles == {"Tally Sheet", "Birds"}      \* str titles
TextKeys == {"robin", "5"}              \* categories passed as str
IntKeys == {5}                          \* categories passed as int
Amounts == (0 - 1) .. MaxAmount
Unset == "<no attribute>"               \* an attribute the object does not have
NoRet == 0 - 1                          \* the call returned no count
Absent == 0 - 1                         \* the category is not in the mapping

VARIABLES
    _title,        \* self._title
    title,         \* self.title (created only by setTitle)
    _categories,   \* self._categories : category -> count
    last,          \* the most recent call: method, arguments, outcome
    pre,           \* _categories before the most recent call
    preTitle,      \* _title before the most recent call
    last2,         \* the call before the most recent one
    pre2           \* the count its category had before that call

vars == <<_title, title, _categories, last, pre, preTitle, last2, pre2>>

\* ---- str(category) ----
DigitChars == <<"0", "1", "2", "3", "4", "5", "6", "7", "8", "9">>
strInt(n) == DigitChars[n + 1]
strText(s) == s
Categories == {strText(s) : s \in TextKeys} \cup {strInt(n) : n \in IntKeys}

Empty == [k \in {} |-> 0]
Store(cats, c, v) == [k \in (DOMAIN cats) \cup {c} |-> IF k = c THEN v ELSE cats[k]]
Delete(cats, c) == [k \in (DOMAIN cats) \ {c} |-> cats[k]]
CountOf(cats, c) == IF c \in DOMAIN cats THEN cats[c] ELSE Absent
Outcome(cats, res, ret) == [cats |-> cats, res |-> res, ret |-> ret]

\* ---- the methods ----
addCategoryOverwrite(cats, c, isInt, amount) ==
    IF ~isInt THEN Outcome(cats, "TypeError", NoRet)
    ELSE IF amount < 0 THEN Outcome(cats, "ValueError", NoRet)
    ELSE Outcome(Store(cats, c, amount), "ok", NoRet)

addCategory(cats, c, isInt, amount) ==
    IF ~isInt THEN Outcome(cats, "TypeError", NoRet)
    ELSE IF amount < 0 THEN Outcome(cats, "ValueError", NoRet)
    ELSE IF c \in DOMAIN cats THEN Outcome(Store(cats, c, cats[c] + amount), "ok", NoRet)
    ELSE Outcome(Store(cats, c, amount), "ok", NoRet)

removeCategoryClear(cats, c) ==
    IF c \in DOMAIN cats THEN Outcome(Empty, "ok", NoRet)
    ELSE Outcome(cats, "KeyError", NoRet)

removeCategory(cats, c) ==
    IF c \in DOMAIN cats THEN Outcome(Delete(cats, c), "ok", NoRet)
    ELSE Outcome(cats, "KeyError", NoRet)

getTally(cats, c) ==
    IF c \in DOMAIN cats THEN Outcome(cats, "ok", cats[c])
    ELSE Outcome(cats, "KeyError", NoRet)

setTallyCreate(cats, c, amount) ==
    IF amount < 0 THEN Outcome(cats, "ValueError", NoRet)
    ELSE Outcome(Store(cats, c, amount), "ok", NoRet)

setTally(cats, c, amount) ==
    IF amount < 0 THEN Outcome(cats, "ValueError", NoRet)
    ELSE IF c \in DOMAIN cats THEN Outcome(Store(cats, c, amount), "ok", NoRet)
    ELSE Outcome(cats, "KeyError", NoRet)

incrementTwice(cats, c, amount) ==
    IF amount < 0 THEN Outcome(cats, "ValueError", NoRet)
    ELSE IF c \in DOMAIN cats THEN Outcome(Store(cats, c, cats[c] + amount + amount), "ok", NoRet)
    ELSE Outcome(cats, "KeyError", NoRet)

increment(cats, c, amount) ==
    IF amount < 0 THEN Outcome(cats, "ValueError", NoRet)
    ELSE IF c \in DOMAIN cats THEN Outcome(Store(cats, c, cats[c] + amount), "ok", NoRet)
    ELSE Outcome(cats, "KeyError", NoRet)

decrementClampThenRaise(cats, c, amount) ==
    IF amount < 0 THEN Outcome(cats, "ValueError", NoRet)
    ELSE IF c \in DOMAIN cats
         THEN IF amount > cats[c] THEN Outcome(Store(cats, c, 0), "ValueError", NoRet)
              ELSE Outcome(Store(cats, c, cats[c] - amount), "ok", NoRet)
    ELSE Outcome(cats, "KeyError", NoRet)

decrementNoCheck(cats, c, amount) ==
    IF amount < 0 THEN Outcome(cats, "ValueError", NoRet)
    ELSE IF c \in DOMAIN cats THEN Outcome(Store(cats, c, cats[c] - amount), "ok", NoRet)
    ELSE Outcome(cats, "KeyError", NoRet)

decrementClamp(cats, c, amount) ==
    IF amount < 0 THEN Outcome(cats, "ValueError", NoRet)
    ELSE IF c \in DOMAIN cats
         THEN IF amount > cats[c] THEN Outcome(Store(cats, c, 0), "ok", NoRet)
              ELSE Outcome(Store(cats, c, cats[c] - amount), "ok", NoRet)
    ELSE Outcome(cats, "KeyError", NoRet)

decrement(cats, c, amount) ==
    IF amount < 0 THEN Outcome(cats, "ValueError", NoRet)
    ELSE IF c \in DOMAIN cats
         THEN IF amount > cats[c] THEN Outcome(cats, "ValueError", NoRet)
              ELSE Outcome(Store(cats, c, cats[c] - amount), "ok", NoRet)
    ELSE Outcome(cats, "KeyError", NoRet)

\* zeroAll: for key in self._categories.keys(): self.setTally(key, 0)
\* The loop stops at the first call that raises.
RECURSIVE zeroLoop(_, _)
zeroLoop(cats, keys) ==
    IF keys = {} THEN Outcome(cats, "ok", NoRet)
    ELSE LET key == CHOOSE k \in keys : TRUE
             r == setTally(cats, key, 0)
         IN IF r.res = "ok" THEN zeroLoop(r.cats, keys \ {key}) ELSE r

zeroAllDrop(cats) == Outcome(Empty, "ok", NoRet)

zeroAll(cats) == zeroLoop(cats, DOMAIN cats)

\* setTitle assigns the attribute `title`; getTitle reads `_title`.
TitleState(t, a, res) == [_title |-> t, title |-> a, res |-> res]

setTitle(t, a, isStr, newTitle) ==
    IF ~isStr THEN TitleState(t, a, "TypeError")
    ELSE TitleState(t, newTitle, "ok")

getTitle(t) == t

\* ---- the record of a call ----
Brief(call) == [op |-> call.op, cat |-> call.cat, isInt |-> call.isInt,
                amt |-> call.amt, res |-> call.res]
Call(op, c, isInt, amount, res, ret, targ) ==
    [op |-> op, cat |-> c, isInt |-> isInt, amt |-> amount,
     res |-> res, ret |-> ret, targ |-> targ]

InBounds(cats) == \A k \in DOMAIN cats : cats[k] <= MaxCount

\* a call on the mapping: apply the outcome r and record the call
Apply(op, c, isInt, amount, r) ==
    /\ InBounds(r.cats)
    /\ _categories' = r.cats
    /\ last' = Call(op, c, isInt, amount, r.res, r.ret, "")
    /\ pre' = _categories
    /\ preTitle' = _title
    /\ last2' = Brief(last)
    /\ pre2' = CountOf(pre, last.cat)
    /\ UNCHANGED <<_title, title>>

Init ==
    /\ _title \in Titles
    /\ title = Unset
    /\ _categories = Empty
    /\ last = Call("init", "", TRUE, 0, "ok", NoRet, "")
    /\ pre = Empty
    /\ preTitle = _title
    /\ last2 = Brief(Call("init", "", TRUE, 0, "ok", NoRet, ""))
    /\ pre2 = Absent

GetTitle ==
    /\ last' = Call("getTitle", "", TRUE, 0, "ok", NoRet, getTitle(_title))
    /\ pre' = _categories
    /\ preTitle' = _title
    /\ last2' = Brief(last)
    /\ pre2' = CountOf(pre, last.cat)
    /\ UNCHANGED <<_title, title, _categories>>

SetTitle ==
    \E isStr \in BOOLEAN : \E newTitle \in Titles :
        LET r == setTitle(_title, title, isStr, newTitle) IN
        /\ _title' = r._title
        /\ title' = r.title
        /\ last' = Call("setTitle", "", isStr, 0, r.res, NoRet, newTitle)
        /\ pre' = _categories
        /\ preTitle' = _title
        /\ last2' = Brief(last)
        /\ pre2' = CountOf(pre, last.cat)
        /\ UNCHANGED _categories

AddCategory ==
    \E c \in Categories : \E isInt \in BOOLEAN : \E amount \in Amounts :
        Apply("addCategory", c, isInt, amount, addCategory(_categories, c, isInt, amount))

RemoveCategory ==
    \E c \in Categories :
        Apply("removeCategory", c, TRUE, 0, removeCategory(_categories, c))

GetTally ==
    \E c \in Categories :
        Apply("getTally", c, TRUE, 0, getTally(_categories, c))

SetTally ==
    \E c \in Categories : \E amount \in Amounts :
        Apply("setTally", c, TRUE, amount, setTally(_categories, c, amount))

Increment ==
    \E c \in Categories : \E amount \in Amounts :
        Apply("increment", c, TRUE, amount, increment(_categories, c, amount))

Decrement ==
    \E c \in Categories : \E amount \in Amounts :
        Apply("decrement", c, TRUE, amount, decrement(_categories, c, amount))

ZeroAll ==
    Apply("zeroAll", "", TRUE, 0, zeroAll(_categories))

Next ==
    \/ GetTitle
    \/ SetTitle
    \/ AddCategory
    \/ RemoveCategory
    \/ GetTally
    \/ SetTally
    \/ Increment
    \/ Decrement
    \/ ZeroAll

Spec == Init /\ [][Next]_vars

\* ======================= the claims =======================
KeyedOps == {"addCategory", "removeCategory", "getTally", "setTally", "increment", "decrement"}
KeyedMutators == {"addCategory", "removeCategory", "setTally", "increment", "decrement"}
Queries == {"getTally", "getTitle"}

\* C1: in every reachable state every count stored in the mapping is >= 0.
C1_CountsNonNegative ==
    \A k \in DOMAIN _categories : _categories[k] >= 0

\* C1 witness: a decrement asking for more than the count was just refused
\* on a category whose count had been brought down to 0.
C1_Witness ==
    /\ last.op = "decrement" /\ last.amt > 0 /\ last.res = "ValueError"
    /\ last2.op = "decrement" /\ last2.res = "ok" /\ last2.cat = last.cat
    /\ CountOf(_categories, last.cat) = 0

\* C2 (as claimed): after a successful setTitle(t), getTitle() returns t.
C2_SetTitleReplaces ==
    (last.op = "setTitle" /\ last.res = "ok") => getTitle(_title) = last.targ

\* C3: a rejected addCategory, removeCategory, getTally, setTally, increment
\* or decrement leaves the mapping exactly as it was before the call.
C3_RejectedCallKeepsMapping ==
    (last.op \in KeyedOps /\ last.res # "ok") => _categories = pre

\* C3 witness: a decrement larger than the (positive) count was rejected.
C3_Witness ==
    /\ last.op = "decrement" /\ last.res = "ValueError"
    /\ last.cat \in DOMAIN pre /\ pre[last.cat] > 0 /\ last.amt > pre[last.cat]

\* C4: on an existing category with count n, decrement by 0 <= k <= n succeeds
\* and leaves n - k; decrement by k > n raises ValueError and leaves n.
C4_DecrementRefuses ==
    (last.op = "decrement" /\ last.cat \in DOMAIN pre /\ last.amt >= 0) =>
        IF last.amt <= pre[last.cat]
        THEN /\ last.res = "ok"
             /\ getTally(_categories, last.cat).ret = pre[last.cat] - last.amt
        ELSE /\ last.res = "ValueError"
             /\ getTally(_categories, last.cat).res = "ok"
             /\ getTally(_categories, last.cat).ret = pre[last.cat]

\* C4 witness: decrement(c, n + 1) on a category with count n >= 1.
C4_Witness ==
    /\ last.op = "decrement" /\ last.cat \in DOMAIN pre
    /\ pre[last.cat] >= 1 /\ last.amt = pre[last.cat] + 1

\* C5: addCategory(c, amount) with an integer amount >= 0 succeeds; afterwards
\* the count of c is amount if c was absent and the old count plus amount if
\* c was present.
C5_AddCategoryAccumulates ==
    (last.op = "addCategory" /\ last.isInt /\ last.amt >= 0) =>
        /\ last.res = "ok"
        /\ getTally(_categories, last.cat).res = "ok"
        /\ getTally(_categories, last.cat).ret =
               IF last.cat \in DOMAIN pre THEN pre[last.cat] + last.amt ELSE last.amt

\* C5 witness: addCategory with a positive amount on a category that already
\* had a positive count.
C5_Witness ==
    /\ last.op = "addCategory" /\ last.res = "ok" /\ last.amt > 0
    /\ last.cat \in DOMAIN pre /\ pre[last.cat] > 0

AddZeroThenAdd ==
    /\ last2.op = "addCategory" /\ last2.isInt /\ last2.amt = 0
    /\ last.op = "addCategory" /\ last.isInt /\ last.amt >= 0
    /\ last.cat = last2.cat

\* C6 (as claimed): addCategory(c, 0) followed by addCategory(c, amount) with
\* amount >= 0 yields getTally(c) = amount.
C6_AddZeroThenAddYieldsAmount ==
    AddZeroThenAdd => getTally(_categories, last.cat).ret = last.amt

\* C6 (amended): addCategory(c, 0) followed by addCategory(c, amount) with
\* amount >= 0 yields getTally(c) = n + amount, where n is the count c had
\* before the two calls (0 if c was absent); so exactly amount when c was
\* absent or at 0.
C6_AddZeroThenAddYieldsSum ==
    AddZeroThenAdd =>
        /\ last2.res = "ok" /\ last.res = "ok"
        /\ getTally(_categories, last.cat).ret =
               (IF pre2 = Absent THEN 0 ELSE pre2) + last.amt

\* C6 witness: the two calls were made on a category that had a positive count.
C6_Witness ==
    AddZeroThenAdd /\ pre2 > 0 /\ last.amt > 0

C8_ZeroAll ==
    last.op = "zeroAll" =>
        /\ last.res = "ok"
        /\ DOMAIN _categories = DOMAIN pre
        /\ \A k \in DOMAIN _categories : _categories[k] = 0

\* C8 witness: zeroAll on a sheet holding every category, all counts positive.
C8_Witness ==
    /\ last.op = "zeroAll" /\ DOMAIN pre = Categories
    /\ \A k \in DOMAIN pre : pre[k] > 0

IncrementThenDecrement ==
    /\ last2.op = "increment" /\ pre2 # Absent /\ last2.amt >= 0
    /\ last.op = "decrement" /\ last.cat = last2.cat /\ last.amt = last2.amt

\* C9: on an existing category with count n, increment(c, k) followed by
\* decrement(c, k), k >= 0, both succeed and the count is n again.
C9_RoundTrip ==
    IncrementThenDecrement =>
        /\ last2.res = "ok" /\ last.res = "ok"
        /\ getTally(_categories, last.cat).ret = pre2

\* C9 witness: the round trip was made with k > 0 from a positive count.
C9_Witness ==
    IncrementThenDecrement /\ last.amt > 0 /\ pre2 > 0

\* C10: a call of addCategory, removeCategory, setTally, increment or
\* decrement on c leaves presence and count of every other category and the
\* title returned by getTitle as they were; getTally and getTitle change
\* nothing of the sheet.
C10_Frame ==
    [][ /\ last'.op \in KeyedMutators =>
              /\ \A d \in Categories \ {last'.cat} :
                     CountOf(_categories', d) = CountOf(_categories, d)
              /\ getTitle(_title') = getTitle(_title)
        /\ last'.op \in Queries => UNCHANGED <<_title, title, _categories>>
      ]_vars

\* C10 witness: a category was removed while another one held a positive count.
C10_Witness ==
    /\ last.op = "removeCategory" /\ last.res = "ok"
    /\ \E d \in DOMAIN _categories : d # last.cat /\ _categories[d] > 0

====
